---- MODULE Spec2Model ----
(***************************************************************************)
(* Model of the comparer application: the four-pass shift detector         *)
(* (app/services/shift_detector.py), the comparator                        *)
(* (app/services/comparator.py), the tabell reader                         *)
(* (app/services/sheets_reader.py) and the /api/compare handler            *)
(* (app/routes.py, app/services/skud_parser.py).                           *)
(*                                                                         *)
(* Time.  A calendar date is a day number; a time of day is a number of    *)
(* minutes after midnight; punch_datetime = date * 1440 + minutes.  All    *)
(* times of day of the model are multiples of ten minutes, so a duration   *)
(* in hours is never half-way between two tenths and round(hours, 1) does  *)
(* not depend on the binary representation of the float.  Hours are kept   *)
(* as integer tenths of an hour.                                           *)
(*                                                                         *)
(* Indices.  Python lists are 0-based, the sequences here are 1-based:     *)
(* index i of the code is index i + 1 of the model.                        *)
(***************************************************************************)
EXTENDS Integers, Sequences, FiniteSets, TLC

VARIABLES
    pc,              \* position of the running operation
    punches,         \* the punch list handed to the detector
    sorted_punches,  \* _detect_employee_shifts: sorted_punches
    i,               \* _detect_employee_shifts: outer loop index of the running pass
    used,            \* _detect_employee_shifts: used
    shifts,          \* _detect_employee_shifts: shifts
    claimed,         \* history: one entry per punch marked used or emitted as broken
    date_from,       \* the requested range, inclusive
    date_to,
    todo,            \* detect_all_shifts: the keys of by_employee not yet processed
    detected,        \* history: what _detect_employee_shifts returned, per employee
    all_shifts,      \* detect_all_shifts: all_shifts (shifts_by_employee)
    all_broken,      \* detect_all_shifts: all_broken (broken_shifts)
    tabell_entries,  \* compare: the tabell entries it was given
    result,          \* compare: the dict it returned
    rows,            \* fetch_tabell: rows (the CSV export)
    project_col,     \* fetch_tabell: project_col
    needed_months,   \* fetch_tabell: needed_months
    row_idx,         \* fetch_tabell: index (0-based) of the next row of the loop
    entries,         \* fetch_tabell: entries
    emitted_from,    \* history: the row index each entry was decoded from
    handler,         \* api_compare: the position, locals and response of each request
    upload_folder,   \* the files of UPLOAD_FOLDER and their contents
    issued,          \* history: how many file names uuid4 has given out
    reordered,       \* the punch list in another order of its rows
    kept,            \* parse_skud_xlsx: the punches inside the buffered range
    outcomes         \* the outputs of the pipeline for two punch lists

detVars == <<sorted_punches, i, used, shifts, claimed>>
pipeVars == <<date_from, date_to, todo, detected, all_shifts, all_broken,
              tabell_entries, result>>
tabVars == <<rows, project_col, needed_months, row_idx, entries, emitted_from>>
apiVars == <<handler, upload_folder, issued>>
cmpVars == <<reordered, kept, outcomes>>
vars == <<pc, punches, detVars, pipeVars, tabVars, apiVars, cmpVars>>

----------------------------------------------------------------------------
(* Bounds of the model *)

MaxPunches == 4
MaxDate == 3
MaxRows == 3

Employees == {"E1", "E2"}
Dates == 1..MaxDate
\* the dates of the punches and of the ranges of a request: 2025-03-10, 2025-03-11
RangeDates == {1, 2}
\* 04:10, 05:00, 06:00, 16:00, 17:00, 23:00
Times == {250, 300, 360, 960, 1020, 1380}

----------------------------------------------------------------------------
(* models.py *)

TabellEntry(e, n, j, c, m, dh, pr) ==
    [employee_id |-> e, name |-> n, job_title |-> j, company |-> c, month |-> m,
     daily_hours |-> dh, project |-> pr]

MinutesPerDay == 1440
NoPunch == -1

PunchRecord(e, d, t) ==
    [employee_id |-> e, punch_date |-> d, punch_time |-> t,
     punch_datetime |-> d * MinutesPerDay + t]

Shift(e, ty, ad, sp, ep, h) ==
    [employee_id |-> e, shift_type |-> ty, attributed_date |-> ad,
     start_punch |-> sp, end_punch |-> ep, hours |-> h]

\* datetime.hour and datetime.date() of a punch_datetime
HourOf(dt) == (dt % MinutesPerDay) \div 60
DateOf(dt) == dt \div MinutesPerDay

----------------------------------------------------------------------------
(* datetime.date: the Gregorian calendar from 2024-01-01 on.  A date is the   *)
(* number of days after 2025-03-09, so that date 1 is 2025-03-10.             *)

IsLeap(y) == y % 4 = 0 /\ (y % 100 # 0 \/ y % 400 = 0)
DaysInYear(y) == IF IsLeap(y) THEN 366 ELSE 365
DaysInMonth(y, m) ==
    IF m = 2 THEN (IF IsLeap(y) THEN 29 ELSE 28)
    ELSE IF m \in {4, 6, 9, 11} THEN 30 ELSE 31

RECURSIVE DaysBeforeYear(_)
DaysBeforeYear(y) ==
    IF y <= 2024 THEN 0 ELSE DaysBeforeYear(y - 1) + DaysInYear(y - 1)

RECURSIVE DaysBeforeMonth(_, _)
DaysBeforeMonth(y, m) ==
    IF m <= 1 THEN 0 ELSE DaysBeforeMonth(y, m - 1) + DaysInMonth(y, m - 1)

\* the day count of y-m-d, 2024-01-01 being day 1
Ordinal(y, m, d) == DaysBeforeYear(y) + DaysBeforeMonth(y, m) + d

\* date(y, m, d)
DateNumber(y, m, d) == Ordinal(y, m, d) - Ordinal(2025, 3, 9)

RECURSIVE YearMonthDay(_, _, _)
YearMonthDay(y, m, rest) ==
    IF rest > DaysInYear(y) /\ m = 1 THEN YearMonthDay(y + 1, 1, rest - DaysInYear(y))
    ELSE IF rest > DaysInMonth(y, m) THEN YearMonthDay(y, m + 1, rest - DaysInMonth(y, m))
    ELSE [year |-> y, month |-> m, day |-> rest]

\* d.year, d.month, d.day
DateFields(d) == YearMonthDay(2024, 1, d + Ordinal(2025, 3, 9))
YearOfDate(d) == DateFields(d).year
MonthOfDate(d) == DateFields(d).month
DayOfDate(d) == DateFields(d).day

----------------------------------------------------------------------------
(* shift_detector.py *)

MaxDayShiftMinutes == 750

\* round(minutes / 60, 1), in tenths of an hour.  minutes / 60 hours is
\* minutes / 6 tenths; Python rounds the exact half to the even tenth.
RoundTenths(minutes) ==
    LET q == minutes \div 6
        r == minutes % 6
    IN  IF r > 3 THEN q + 1
        ELSE IF r < 3 THEN q
        ELSE IF q % 2 = 0 THEN q ELSE q + 1

\* sorted(punches, key=lambda p: p.punch_datetime): a stable insertion sort
RECURSIVE InsertPunch(_, _)
InsertPunch(s, p) ==
    IF s = <<>> THEN <<p>>
    ELSE IF s[Len(s)].punch_datetime <= p.punch_datetime THEN Append(s, p)
    ELSE Append(InsertPunch(SubSeq(s, 1, Len(s) - 1), p), s[Len(s)])

RECURSIVE SortPunchesFrom(_, _, _)
SortPunchesFrom(s, k, acc) ==
    IF k > Len(s) THEN acc ELSE SortPunchesFrom(s, k + 1, InsertPunch(acc, s[k]))

\* variant: the punches are taken in the order of the list
InputOrder(s) == s

SortedByDatetime(s) == SortPunchesFrom(s, 1, <<>>)

\* the entries of `claimed` for the swallowed intermediates, in loop order
RECURSIVE Swallowed(_, _, _, _, _)
Swallowed(mids, lo, hi, pass, sh) ==
    IF lo > hi THEN <<>>
    ELSE IF lo \notin mids THEN Swallowed(mids, lo + 1, hi, pass, sh)
    ELSE <<[idx |-> lo, role |-> "mid", pass |-> pass, shift |-> sh]>>
             \o Swallowed(mids, lo + 1, hi, pass, sh)

\* variant: the punches between the pair are not marked
MarkUsedPairOnly(u, a, b, mids) == u \cup {a, b}

\* used.add(i), used.add(best_j) and used.add(k) for the punches between them
MarkUsed(u, a, b, mids) == u \cup {a, b} \cup mids

\* the state after a pass appended shift s for the pair (a, b) and marked a, b
\* and the intermediates mids used
Paired(st, a, b, s, pass, mids) ==
    LET sh == Len(st.shifts) + 1
    IN  [used    |-> MarkUsed(st.used, a, b, mids),
         shifts  |-> Append(st.shifts, s),
         claimed |-> st.claimed
                     \o <<[idx |-> a, role |-> "start", pass |-> pass, shift |-> sh],
                          [idx |-> b, role |-> "end", pass |-> pass, shift |-> sh]>>
                     \o Swallowed(mids, a + 1, b - 1, pass, sh)]

\* variant: the window of a day-shift end closes at 16:59
DayEndHourNarrow(hour) == 14 <= hour /\ hour <= 16

\* Pass 1: the hours of a day-shift end
DayEndHour(hour) == 14 <= hour /\ hour <= 20

\* variant: the 12.5-hour guard is missing
TooLongNever(minutes) == FALSE

\* Pass 1: a pairing of more than 12.5 hours is rejected
TooLong(minutes) == minutes > MaxDayShiftMinutes

\* Pass 1, inner loop: the latest unused same-date punch with hour in 14..20
RECURSIVE DayEnd(_, _, _, _, _)
DayEnd(sp, u, p, j, best) ==
    IF j > Len(sp) THEN best
    ELSE IF j \in u THEN DayEnd(sp, u, p, j + 1, best)
    ELSE IF sp[j].punch_date # p.punch_date THEN best
    ELSE IF DayEndHour(HourOf(sp[j].punch_datetime)) THEN DayEnd(sp, u, p, j + 1, j)
    ELSE DayEnd(sp, u, p, j + 1, best)

\* Pass 1, one iteration of the outer loop
Pass1Step(st, sp, emp, k) ==
    IF k \in st.used THEN st
    ELSE LET p == sp[k]
             hour == HourOf(p.punch_datetime)
         IN  IF ~(4 <= hour /\ hour <= 10) THEN st
             ELSE LET best_j == DayEnd(sp, st.used, p, k + 1, 0)
                  IN  IF best_j = 0 THEN st
                      ELSE LET end == sp[best_j]
                               minutes == end.punch_datetime - p.punch_datetime
                           IN  IF TooLong(minutes) THEN st
                               ELSE Paired(st, k, best_j,
                                           Shift(emp, "day", p.punch_date,
                                                 p.punch_datetime, end.punch_datetime,
                                                 RoundTenths(minutes)),
                                           1,
                                           {m \in (k + 1)..(best_j - 1) :
                                               m \notin st.used
                                               /\ sp[m].punch_date = p.punch_date})

\* variant: the inner loop of Pass 2 does not skip the used punches
RECURSIVE NightEndAnyPunch(_, _, _, _, _)
NightEndAnyPunch(sp, u, next_date, j, best) ==
    IF j > Len(sp) THEN best
    ELSE IF sp[j].punch_date > next_date THEN best
    ELSE IF sp[j].punch_date = next_date /\ HourOf(sp[j].punch_datetime) <= 13
         THEN NightEndAnyPunch(sp, u, next_date, j + 1, j)
    ELSE NightEndAnyPunch(sp, u, next_date, j + 1, best)

\* Pass 2, inner loop: the latest unused punch of the next date with hour <= 13
RECURSIVE NightEnd(_, _, _, _, _)
NightEnd(sp, u, next_date, j, best) ==
    IF j > Len(sp) THEN best
    ELSE IF j \in u THEN NightEnd(sp, u, next_date, j + 1, best)
    ELSE IF sp[j].punch_date > next_date THEN best
    ELSE IF sp[j].punch_date = next_date /\ HourOf(sp[j].punch_datetime) <= 13
         THEN NightEnd(sp, u, next_date, j + 1, j)
    ELSE NightEnd(sp, u, next_date, j + 1, best)

\* Pass 2, one iteration of the outer loop
Pass2Step(st, sp, emp, k) ==
    IF k \in st.used THEN st
    ELSE LET p == sp[k]
             hour == HourOf(p.punch_datetime)
         IN  IF ~(15 <= hour /\ hour <= 23) THEN st
             ELSE LET next_date == p.punch_date + 1
                      best_j == NightEnd(sp, st.used, next_date, k + 1, 0)
                  IN  IF best_j = 0 THEN st
                      ELSE LET end == sp[best_j]
                               minutes == end.punch_datetime - p.punch_datetime
                           IN  Paired(st, k, best_j,
                                      Shift(emp, "night", p.punch_date,
                                            p.punch_datetime, end.punch_datetime,
                                            RoundTenths(minutes)),
                                      2,
                                      {m \in (k + 1)..(best_j - 1) :
                                          m \notin st.used
                                          /\ sp[m].punch_date \in {p.punch_date, next_date}})

\* variant: the window of Pass 3 is one hour too wide
PostMidnightHourWide(hour) == 0 <= hour /\ hour <= 5

\* Pass 3: the hours of a post-midnight start
PostMidnightHour(hour) == 0 <= hour /\ hour <= 4

\* Pass 3, inner loop: the latest unused same-date punch with hour in 5..13
RECURSIVE MorningEnd(_, _, _, _, _)
MorningEnd(sp, u, p, j, best) ==
    IF j > Len(sp) THEN best
    ELSE IF j \in u THEN MorningEnd(sp, u, p, j + 1, best)
    ELSE IF sp[j].punch_date # p.punch_date THEN best
    ELSE IF 5 <= HourOf(sp[j].punch_datetime) /\ HourOf(sp[j].punch_datetime) <= 13
         THEN MorningEnd(sp, u, p, j + 1, j)
    ELSE MorningEnd(sp, u, p, j + 1, best)

\* Pass 3, one iteration of the outer loop
Pass3Step(st, sp, emp, k) ==
    IF k \in st.used THEN st
    ELSE LET p == sp[k]
             hour == HourOf(p.punch_datetime)
         IN  IF ~PostMidnightHour(hour) THEN st
             ELSE LET best_j == MorningEnd(sp, st.used, p, k + 1, 0)
                  IN  IF best_j = 0 THEN st
                      ELSE LET end == sp[best_j]
                               minutes == end.punch_datetime - p.punch_datetime
                           IN  Paired(st, k, best_j,
                                      Shift(emp, "night", p.punch_date - 1,
                                            p.punch_datetime, end.punch_datetime,
                                            RoundTenths(minutes)),
                                      3,
                                      {m \in (k + 1)..(best_j - 1) :
                                          m \notin st.used
                                          /\ sp[m].punch_date = p.punch_date})

\* Pass 4, one iteration of the loop: an unused punch becomes a broken shift
Pass4Step(st, sp, emp, k) ==
    IF k \in st.used THEN st
    ELSE LET p == sp[k]
             hour == HourOf(p.punch_datetime)
             attr_date == IF 0 <= hour /\ hour <= 4 THEN p.punch_date - 1
                          ELSE p.punch_date
         IN  [used    |-> st.used,
              shifts  |-> Append(st.shifts,
                                 Shift(emp, "broken", attr_date, p.punch_datetime,
                                       NoPunch, 0)),
              claimed |-> Append(st.claimed,
                                 [idx |-> k, role |-> "broken", pass |-> 4,
                                  shift |-> Len(st.shifts) + 1])]

PassStep(pass, st, sp, emp, k) ==
    CASE pass = 1 -> Pass1Step(st, sp, emp, k)
      [] pass = 2 -> Pass2Step(st, sp, emp, k)
      [] pass = 3 -> Pass3Step(st, sp, emp, k)
      [] pass = 4 -> Pass4Step(st, sp, emp, k)

----------------------------------------------------------------------------
(* _detect_employee_shifts, one loop iteration at a time *)

DetState == [used |-> used, shifts |-> shifts, claimed |-> claimed]

PassOf(p) ==
    CASE p = "pass1" -> 1 [] p = "pass2" -> 2 [] p = "pass3" -> 3 [] p = "pass4" -> 4

AfterPass(p) ==
    CASE p = "pass1" -> "pass2" [] p = "pass2" -> "pass3"
      [] p = "pass3" -> "pass4" [] p = "pass4" -> "done"

PassPcs == {"pass1", "pass2", "pass3", "pass4"}

\* the employee a punch list belongs to (the caller passes emp_id with its punches)
EmployeeOf(s) == IF s = <<>> THEN "E1" ELSE s[1].employee_id

SortPunches ==
    /\ pc = "input"
    /\ sorted_punches' = SortedByDatetime(punches)
    /\ used' = {}
    /\ shifts' = <<>>
    /\ claimed' = <<>>
    /\ i' = 1
    /\ pc' = "pass1"
    /\ UNCHANGED <<punches, pipeVars, tabVars, apiVars, cmpVars>>

PassIteration ==
    /\ pc \in PassPcs
    /\ i <= Len(sorted_punches)
    /\ LET st == PassStep(PassOf(pc), DetState, sorted_punches,
                          EmployeeOf(sorted_punches), i)
       IN  /\ used' = st.used
           /\ shifts' = st.shifts
           /\ claimed' = st.claimed
    /\ i' = i + 1
    /\ UNCHANGED <<pc, punches, sorted_punches, pipeVars, tabVars, apiVars, cmpVars>>

PassEnd ==
    /\ pc \in PassPcs
    /\ i > Len(sorted_punches)
    /\ pc' = AfterPass(pc)
    /\ i' = 1
    /\ UNCHANGED <<punches, sorted_punches, used, shifts, claimed, pipeVars, tabVars,
                   apiVars, cmpVars>>

\* the punches of employee e on the dates ds
PunchesOn(e, ds) == {PunchRecord(e, d, t) : d \in ds, t \in Times}

\* a list in ascending or in descending punch_datetime order
Monotone(s) ==
    \/ \A k \in 1..(Len(s) - 1) : s[k].punch_datetime <= s[k + 1].punch_datetime
    \/ \A k \in 1..(Len(s) - 1) : s[k].punch_datetime >= s[k + 1].punch_datetime

\* detect_all_shifts appends a punch of the employee to by_employee[emp_id]:
\* any punch that keeps the list in ascending or in descending order
AppendPunch ==
    /\ pc = "input"
    /\ Len(punches) < MaxPunches
    /\ \E p \in PunchesOn("E1", Dates) :
           /\ Monotone(Append(punches, p))
           /\ punches' = Append(punches, p)
    /\ UNCHANGED <<pc, detVars, pipeVars, tabVars, apiVars, cmpVars>>

NoResult == [comparison |-> <<>>, broken_shifts |-> <<>>, summary |-> <<>>]

\* api_compare: the requests, the form of a request, and the locals of a
\* request that has not started
Requests == {"r1", "r2"}

Form(auth, has_file, name, wb, from_str, to_str) ==
    [authenticated |-> auth, has_file |-> has_file, filename |-> name,
     workbook |-> wb, date_from |-> from_str, date_to |-> to_str]

NoForm == Form(FALSE, FALSE, "", <<>>, "", "")

NoResponse == [status |-> 0, error |-> "", result |-> NoResult]

Idle ==
    [pc |-> "idle", form |-> NoForm, date_from |-> 0, date_to |-> 0, filepath |-> 0,
     punches |-> <<>>, tabell_entries |-> <<>>, returning |-> NoResponse,
     response |-> NoResponse]

ApiIdle ==
    /\ handler = [r \in Requests |-> Idle]
    /\ upload_folder = <<>>
    /\ issued = 0

CmpIdle ==
    /\ reordered = <<>>
    /\ kept = <<>>
    /\ outcomes = <<>>

TabellIdle ==
    /\ rows = <<>>
    /\ project_col = -1
    /\ needed_months = {}
    /\ row_idx = 0
    /\ entries = <<>>
    /\ emitted_from = <<>>

PipeIdle ==
    /\ date_from = 1
    /\ date_to = 1
    /\ todo = <<>>
    /\ detected = <<>>
    /\ all_shifts = <<>>
    /\ all_broken = <<>>
    /\ tabell_entries = <<>>
    /\ result = NoResult

InitDetect ==
    /\ pc = "input"
    /\ punches = <<>>
    /\ sorted_punches = <<>>
    /\ i = 1
    /\ used = {}
    /\ shifts = <<>>
    /\ claimed = <<>>
    /\ PipeIdle
    /\ TabellIdle
    /\ ApiIdle
    /\ CmpIdle

NextDetect == AppendPunch \/ SortPunches \/ PassIteration \/ PassEnd

SpecDetect == InitDetect /\ [][NextDetect]_vars

----------------------------------------------------------------------------
(* _detect_employee_shifts as one function: sort, then the four passes *)

RECURSIVE RunPass(_, _, _, _, _)
RunPass(pass, st, sp, emp, k) ==
    IF k > Len(sp) THEN st
    ELSE RunPass(pass, PassStep(pass, st, sp, emp, k), sp, emp, k + 1)

DetectEmployeeShifts(emp, ps) ==
    LET sp == SortedByDatetime(ps)
        s0 == [used |-> {}, shifts |-> <<>>, claimed |-> <<>>]
        s1 == RunPass(1, s0, sp, emp, 1)
        s2 == RunPass(2, s1, sp, emp, 1)
        s3 == RunPass(3, s2, sp, emp, 1)
    IN  RunPass(4, s3, sp, emp, 1).shifts

----------------------------------------------------------------------------
(* detect_all_shifts *)

\* by_employee: the employees in the order of their first punch in the list
RECURSIVE KeysInOrder(_, _, _)
KeysInOrder(s, k, acc) ==
    IF k > Len(s) THEN acc
    ELSE IF \E m \in 1..Len(acc) : acc[m] = s[k].employee_id
         THEN KeysInOrder(s, k + 1, acc)
    ELSE KeysInOrder(s, k + 1, Append(acc, s[k].employee_id))

PunchesOfEmployee(s, e) == SelectSeq(s, LAMBDA p : p.employee_id = e)

\* variant: the upper end of the range is not tested
InRangeNoUpper(s, from, to) == ~(s.attributed_date < from)

InRange(s, from, to) == ~(s.attributed_date < from \/ s.attributed_date > to)

ValidShifts(ss, from, to) ==
    SelectSeq(ss, LAMBDA s : InRange(s, from, to) /\ s.shift_type # "broken")

BrokenShifts(ss, from, to) ==
    SelectSeq(ss, LAMBDA s : InRange(s, from, to) /\ s.shift_type = "broken")

\* a dict with key k set to v
Put(f, k, v) == [x \in DOMAIN f \cup {k} |-> IF x = k THEN v ELSE f[x]]

GroupByEmployee ==
    /\ pc = "parse"
    /\ todo' = KeysInOrder(punches, 1, <<>>)
    /\ all_shifts' = <<>>
    /\ all_broken' = <<>>
    /\ pc' = "detect"
    /\ UNCHANGED <<punches, detVars, date_from, date_to, detected, tabell_entries,
                   result, tabVars, apiVars, cmpVars>>

\* one iteration of the loop over by_employee.items()
DetectEmployee ==
    /\ pc = "detect"
    /\ todo # <<>>
    /\ LET emp_id == Head(todo)
           found == DetectEmployeeShifts(emp_id, PunchesOfEmployee(punches, emp_id))
           valid == ValidShifts(found, date_from, date_to)
           broken == BrokenShifts(found, date_from, date_to)
       IN  /\ detected' = Put(detected, emp_id, found)
           /\ all_shifts' = IF valid # <<>> THEN Put(all_shifts, emp_id, valid)
                            ELSE all_shifts
           /\ all_broken' = all_broken \o broken
    /\ todo' = Tail(todo)
    /\ UNCHANGED <<pc, punches, detVars, date_from, date_to, tabell_entries, result,
                   tabVars, apiVars, cmpVars>>

DetectReturn ==
    /\ pc = "detect"
    /\ todo = <<>>
    /\ pc' = "compare"
    /\ UNCHANGED <<punches, detVars, pipeVars, tabVars, apiVars, cmpVars>>

----------------------------------------------------------------------------
(* comparator.py *)

\* d.isoformat() is one-to-one: the days of a row are keyed by the date itself.

\* MONTH_MAP.get(name, 0)
MonthNumber(name) ==
    CASE name = "January" -> 1 [] name = "February" -> 2 [] name = "March" -> 3
      [] name = "April" -> 4 [] name = "May" -> 5 [] name = "June" -> 6
      [] name = "July" -> 7 [] name = "August" -> 8 [] name = "September" -> 9
      [] name = "October" -> 10 [] name = "November" -> 11 [] name = "December" -> 12
      [] OTHER -> 0

\* the order of str on the employee ids
EmpRank(e) == IF e = "E1" THEN 1 ELSE 2

\* sorted(keys): the ids of a set in ascending order
RECURSIVE SortedIds(_)
SortedIds(ids) ==
    IF ids = {} THEN <<>>
    ELSE LET least == CHOOSE e \in ids : \A f \in ids : EmpRank(e) <= EmpRank(f)
         IN  <<least>> \o SortedIds(ids \ {least})

\* _get_tabell_hours
RECURSIVE GetTabellHours(_, _, _)
GetTabellHours(tes, k, d) ==
    IF k > Len(tes) THEN 0
    ELSE IF MonthNumber(tes[k].month) = MonthOfDate(d)
         THEN IF DayOfDate(d) \in DOMAIN tes[k].daily_hours
              THEN tes[k].daily_hours[DayOfDate(d)] ELSE 0
    ELSE GetTabellHours(tes, k + 1, d)

\* _estimate_shift_type
EstimateShiftType(hour) ==
    IF 4 <= hour /\ hour <= 10 THEN "day_start?"
    ELSE IF 14 <= hour /\ hour <= 20 THEN "day_end?"
    ELSE IF 15 <= hour /\ hour <= 23 THEN "night_start?"
    ELSE IF 0 <= hour /\ hour <= 4 THEN "night_end?"
    ELSE "unknown"

\* variant: the hours of a date are assigned, not accumulated
RECURSIVE SumHoursLast(_, _, _)
SumHoursLast(ss, k, d) ==
    IF k > Len(ss) THEN 0
    ELSE IF \E m \in (k + 1)..Len(ss) : ss[m].attributed_date = d
         THEN SumHoursLast(ss, k + 1, d)
    ELSE IF ss[k].attributed_date = d THEN ss[k].hours ELSE 0

\* skud_hours[emp][date]: the sum of s.hours over the shifts of that date
RECURSIVE SumHours(_, _, _)
SumHours(ss, k, d) ==
    IF k > Len(ss) THEN 0
    ELSE (IF ss[k].attributed_date = d THEN ss[k].hours ELSE 0) + SumHours(ss, k + 1, d)

\* skud_shift_types[emp][date]: the type of the last shift of that date
RECURSIVE LastShiftType(_, _, _)
LastShiftType(ss, k, d) ==
    IF k = 0 THEN "none"
    ELSE IF ss[k].attributed_date = d THEN ss[k].shift_type
    ELSE LastShiftType(ss, k - 1, d)

\* sorted(broken_shifts, key=lambda x: (x.employee_id, x.attributed_date)), stable
BrokenKeyLeq(a, b) ==
    \/ EmpRank(a.employee_id) < EmpRank(b.employee_id)
    \/ /\ a.employee_id = b.employee_id
       /\ a.attributed_date <= b.attributed_date

RECURSIVE InsertBroken(_, _)
InsertBroken(s, x) ==
    IF s = <<>> THEN <<x>>
    ELSE IF BrokenKeyLeq(s[Len(s)], x) THEN Append(s, x)
    ELSE Append(InsertBroken(SubSeq(s, 1, Len(s) - 1), x), s[Len(s)])

RECURSIVE SortedBroken(_, _, _)
SortedBroken(s, k, acc) ==
    IF k > Len(s) THEN acc ELSE SortedBroken(s, k + 1, InsertBroken(acc, s[k]))

\* summary['total_employees_skud']
TotalEmployeesSkud(sbe, broken) ==
    Cardinality(DOMAIN sbe)
        + Cardinality({broken[k].employee_id : k \in 1..Len(broken)})

\* one cell of a row: the day d of employee e
DayCell(sbe, broken, tes, e, d) ==
    LET tabell_h == GetTabellHours(tes, 1, d)
        skud_h == IF e \in DOMAIN sbe THEN SumHours(sbe[e], 1, d) ELSE 0
    IN  [tabell     |-> tabell_h,
         skud       |-> skud_h,
         diff       |-> tabell_h - skud_h,
         broken     |-> \E k \in 1..Len(broken) :
                            /\ broken[k].employee_id = e
                            /\ broken[k].attributed_date = d,
         shift_type |-> IF e \in DOMAIN sbe THEN LastShiftType(sbe[e], Len(sbe[e]), d)
                        ELSE "none"]

Compare(sbe, broken, tes, from, to) ==
    LET tabell_ids == {tes[k].employee_id : k \in 1..Len(tes)}
        tabell_by_emp == [e \in tabell_ids |->
                             SelectSeq(tes, LAMBDA t : t.employee_id = e)]
        all_emp_ids == SortedIds(tabell_ids)
        ordered == SortedBroken(broken, 1, <<>>)
    IN  [comparison |->
             [r \in 1..Len(all_emp_ids) |->
                 LET e == all_emp_ids[r]
                 IN  [employee_id |-> e,
                      name        |-> tabell_by_emp[e][1].name,
                      job_title   |-> tabell_by_emp[e][1].job_title,
                      days        |-> [d \in from..to |->
                                          DayCell(sbe, broken, tabell_by_emp[e], e, d)]]],
         broken_shifts |->
             [b \in 1..Len(ordered) |->
                 [employee_id     |-> ordered[b].employee_id,
                  name            |-> IF ordered[b].employee_id \in tabell_ids
                                      THEN tabell_by_emp[ordered[b].employee_id][1].name
                                      ELSE "",
                  attributed_date |-> ordered[b].attributed_date,
                  punch_time      |-> ordered[b].start_punch,
                  estimated_type  |-> EstimateShiftType(HourOf(ordered[b].start_punch))]],
         summary |->
             [total_employees_tabell |-> Len(all_emp_ids),
              total_employees_skud   |-> TotalEmployeesSkud(sbe, broken),
              matched_employees      |->
                  Cardinality({e \in tabell_ids : e \in DOMAIN sbe /\ sbe[e] # <<>>}),
              broken_count           |-> Len(broken),
              date_range             |-> <<from, to>>]]

\* the tabell entries compare is given: none, one employee, both employees in
\* descending id order, or one employee with an April and a March entry
HoursOfMonth(h) == [d \in 1..31 |-> h]

TabellInputs ==
    {<<>>,
     <<TabellEntry("E1", "Ann", "welder", "Yard", "March", HoursOfMonth(80), "")>>,
     <<TabellEntry("E2", "Bob", "fitter", "Yard", "March", HoursOfMonth(120), ""),
       TabellEntry("E1", "Ann", "welder", "Yard", "March", HoursOfMonth(80), "")>>,
     <<TabellEntry("E1", "Ann", "welder", "Yard", "April", HoursOfMonth(75), ""),
       TabellEntry("E1", "Ann", "welder", "Yard", "March", HoursOfMonth(0), "")>>}

CompareShifts ==
    /\ pc = "compare"
    /\ \E tes \in TabellInputs :
           /\ tabell_entries' = tes
           /\ result' = Compare(all_shifts, all_broken, tes, date_from, date_to)
    /\ pc' = "done"
    /\ UNCHANGED <<punches, detVars, date_from, date_to, todo, detected, all_shifts,
                   all_broken, tabVars, apiVars, cmpVars>>

\* parse_skud_xlsx appends the punch of a row: the punches of the two employees
\* on the dates of RangeDates, in ascending punch_datetime order (and E1 before
\* E2 at one datetime)
MayFollow(p, q) ==
    \/ q.punch_datetime < p.punch_datetime
    \/ /\ q.punch_datetime = p.punch_datetime
       /\ (q.employee_id = "E2" => p.employee_id = "E2")

ReadPunch ==
    /\ pc = "parse"
    /\ Len(punches) < MaxPunches
    /\ \E e \in Employees :
           \E p \in PunchesOn(e, RangeDates) :
               /\ IF punches = <<>> THEN TRUE ELSE MayFollow(p, punches[Len(punches)])
               /\ punches' = Append(punches, p)
    /\ UNCHANGED <<pc, detVars, pipeVars, tabVars, apiVars, cmpVars>>

Init ==
    /\ pc = "parse"
    /\ punches = <<>>
    /\ date_from \in RangeDates
    /\ date_to \in {d \in RangeDates : date_from <= d}
    /\ todo = <<>>
    /\ detected = <<>>
    /\ all_shifts = <<>>
    /\ all_broken = <<>>
    /\ tabell_entries = <<>>
    /\ result = NoResult
    /\ sorted_punches = <<>>
    /\ i = 1
    /\ used = {}
    /\ shifts = <<>>
    /\ claimed = <<>>
    /\ TabellIdle
    /\ ApiIdle
    /\ CmpIdle

Next == ReadPunch \/ GroupByEmployee \/ DetectEmployee \/ DetectReturn \/ CompareShifts

Spec == Init /\ [][Next]_vars

----------------------------------------------------------------------------
(* sheets_reader.py *)

COL_EMPLOYEE_ID == 0
COL_NAME == 1
COL_JOB_TITLE == 2
COL_COMPANY == 3
COL_DAYS_START == 10
COL_DAYS_END == 40
COL_MONTH == 118
HEADER_ROW_IDX == 1
DATA_START_ROW == 2

MONTH_MAP ==
    [m \in {"january", "february", "march", "april", "may", "june", "july",
            "august", "september", "october", "november", "december"} |->
        CASE m = "january" -> 1   [] m = "february" -> 2  [] m = "march" -> 3
          [] m = "april" -> 4     [] m = "may" -> 5       [] m = "june" -> 6
          [] m = "july" -> 7      [] m = "august" -> 8    [] m = "september" -> 9
          [] m = "october" -> 10  [] m = "november" -> 11 [] m = "december" -> 12]

\* The cell texts of the model, and str.strip, str.lower, str.capitalize,
\* str.rstrip('('), str.replace(',', '.') and float on them.  A text that a
\* function leaves as it is falls under OTHER.  The employee-ID prefix, two
\* Cyrillic letters in the sheet, is written TN here.
Strip(s) ==
    CASE s = " tn102 "   -> "tn102"
      [] s = " Ann "     -> "Ann"
      [] s = " MARCH "   -> "MARCH"
      [] s = " 12 "      -> "12"
      [] s = " Dock "    -> "Dock"
      [] s = " PROJECT " -> "PROJECT"
      [] s = " "         -> ""
      [] s = " Date "    -> "Date"
      [] s = "Time "     -> "Time"
      [] s = " E1 "      -> "E1"
      [] s = " Employee ID " -> "Employee ID"
      [] OTHER           -> s

Lower(s) ==
    CASE s = "March"   -> "march"
      [] s = "MARCH"   -> "march"
      [] s = "Marzo"   -> "marzo"
      [] s = "PROJECT" -> "project"
      [] s = "Name"    -> "name"
      [] s = "Col1"    -> "col1"
      [] OTHER         -> s

Capitalize(s) ==
    CASE s = "january" -> "January"     [] s = "february" -> "February"
      [] s = "march" -> "March"         [] s = "april" -> "April"
      [] s = "may" -> "May"             [] s = "june" -> "June"
      [] s = "july" -> "July"           [] s = "august" -> "August"
      [] s = "september" -> "September" [] s = "october" -> "October"
      [] s = "november" -> "November"   [] s = "december" -> "December"
      [] OTHER -> s

\* re.sub(r'^TN', '', raw_id, flags=re.IGNORECASE)
StripPrefix(s) ==
    CASE s = "TN101" -> "101"
      [] s = "tn102" -> "102"
      [] s = "TN"    -> ""
      [] OTHER       -> s

RStripParen(s) == IF s = "10(" THEN "10" ELSE s

CommaToDot(s) == IF s = "7,5" THEN "7.5" ELSE s

\* float(val), in tenths of an hour; -1 stands for ValueError
FloatTenths(s) ==
    CASE s = "8"   -> 80
      [] s = "10"  -> 100
      [] s = "12"  -> 120
      [] s = "7.5" -> 75
      [] OTHER     -> -1

parse_hours(cell_value) ==
    LET val == Strip(cell_value)
    IN  IF val = "" \/ val = "-" THEN 0
        ELSE LET f == FloatTenths(CommaToDot(RStripParen(val)))
             IN  IF f = -1 THEN 0 ELSE f

\* A row of the CSV: its length and its cells by 0-based column; a column
\* below the length that the record does not list holds the empty string.
Cell(row, c) == IF c \in DOMAIN row.cells THEN row.cells[c] ELSE ""

Min(a, b) == IF a < b THEN a ELSE b

\* _detect_project_col; -1 stands for None
IsProjectHeader(cell) == cell # "" /\ Strip(Lower(Strip(cell))) = "project"

detect_project_col(rs) ==
    IF Len(rs) < 2 THEN -1
    ELSE LET hits == {c \in DOMAIN rs[2].cells :
                         c < rs[2].len /\ IsProjectHeader(rs[2].cells[c])}
         IN  IF hits = {} THEN -1
             ELSE CHOOSE c \in hits : \A h \in hits : c <= h

\* fetch_tabell: the while loop that collects the months, and the two adds
RECURSIVE MonthsLoop(_, _, _)
MonthsLoop(current, to, acc) ==
    IF current > to THEN acc
    ELSE LET added == acc \cup {MonthOfDate(current)}
         IN  IF MonthOfDate(current) = 12 THEN added
             ELSE LET next_month_first ==
                          DateNumber(YearOfDate(current), MonthOfDate(current) + 1, 1)
                  IN  IF next_month_first > to THEN added
                      ELSE MonthsLoop(next_month_first, to, added)

NeededMonths(from, to) ==
    MonthsLoop(from, to, {}) \cup {MonthOfDate(from), MonthOfDate(to)}

\* fetch_tabell: the fields of one row
EmployeeIdOf(row) == Strip(StripPrefix(Strip(Cell(row, COL_EMPLOYEE_ID))))

MonthStrOf(row) == Lower(Strip(Cell(row, COL_MONTH)))

DailyHoursZeroBased(row) ==
    [day_num \in {col_idx - COL_DAYS_START :
                     col_idx \in COL_DAYS_START..(Min(COL_DAYS_END + 1, row.len) - 1)} |->
        parse_hours(Strip(Cell(row, day_num + COL_DAYS_START)))]

DailyHours(row) ==
    [day_num \in {col_idx - COL_DAYS_START + 1 :
                     col_idx \in COL_DAYS_START..(Min(COL_DAYS_END + 1, row.len) - 1)} |->
        parse_hours(Strip(Cell(row, day_num + COL_DAYS_START - 1)))]

\* whether the row loop reaches entries.append for the row
RowPasses(row, months) ==
    /\ row.len > COL_MONTH
    /\ Strip(Cell(row, COL_EMPLOYEE_ID)) # ""
    /\ EmployeeIdOf(row) # ""
    /\ MonthStrOf(row) \in DOMAIN MONTH_MAP
    /\ MONTH_MAP[MonthStrOf(row)] \in months

RowEntry(row, pcol) ==
    TabellEntry(EmployeeIdOf(row),
                IF row.len > COL_NAME THEN Strip(Cell(row, COL_NAME)) ELSE "",
                IF row.len > COL_JOB_TITLE THEN Strip(Cell(row, COL_JOB_TITLE)) ELSE "",
                IF row.len > COL_COMPANY THEN Strip(Cell(row, COL_COMPANY)) ELSE "",
                Capitalize(MonthStrOf(row)),
                DailyHours(row),
                IF pcol # -1 /\ row.len > pcol THEN Strip(Cell(row, pcol)) ELSE "")

\* The sheets of the model.  Row 0 holds the merged-cell artifacts; row 1 is
\* the header row, or a row filled like a data row; the rows after it come
\* from RowInputs.  The hour cells repeat DayPattern, so that the cells six
\* columns apart differ.
DayPattern == <<"8", "10(", "7,5", "DOF", "-", " 12 ", "">>

PatternCell(c, phase) == DayPattern[((c + phase) % Len(DayPattern)) + 1]

MonthCells ==
    DOMAIN MONTH_MAP \cup {"March", " MARCH ", "Marzo", ""}

IdCells == {"TN101", " tn102 ", "103", "TN", " "}

\* a row with the identity in columns 0..3, pattern cells in columns 4..40, a
\* project in column 41 and the month in column 118
DataRow(id, name, month, len, phase) ==
    [len   |-> len,
     cells |-> [c \in {c \in (0..41) \cup {COL_MONTH} : c < len} |->
                   CASE c = 0 -> id
                     [] c = 1 -> name
                     [] c = 2 -> "welder"
                     [] c = 3 -> "Yard"
                     [] c = 41 -> " Dock "
                     [] c = COL_MONTH -> month
                     [] OTHER -> PatternCell(c, phase)]]

\* a row with the hour cells in columns 4..34, the month in column 35 and the
\* project in column 36
NarrowRow(id, month, len) ==
    [len   |-> len,
     cells |-> [c \in 0..36 |->
                   CASE c = 0 -> id
                     [] c = 1 -> "Ann"
                     [] c = 2 -> "welder"
                     [] c = 3 -> "Yard"
                     [] c = 35 -> month
                     [] c = 36 -> "Dock"
                     [] OTHER -> PatternCell(c, 1)]]

ArtifactRow == [len |-> 3, cells |-> [c \in 0..2 |-> "Col1"]]

HeaderRow ==
    [len   |-> 119,
     cells |-> [c \in {0, 1, 41} |->
                   CASE c = 0 -> "ID" [] c = 1 -> "Name" [] OTHER -> " PROJECT "]]

RowInputs ==
    {DataRow("TN101", " Ann ", m, 119, 0) : m \in MonthCells}
        \cup {DataRow(id, "Bob", "march", 120, 3) : id \in IdCells}
        \cup {DataRow("TN101", " Ann ", "march", COL_MONTH, 0),
              NarrowRow("TN101", "march", 37),
              NarrowRow("TN101", "march", 119)}

HeaderInputs == {HeaderRow, DataRow("TN101", " Ann ", "march", 119, 0)}

Sheets ==
    {<<>>, <<ArtifactRow>>}
        \cup {<<ArtifactRow, h>> : h \in HeaderInputs}
        \cup UNION {{<<ArtifactRow, h>> \o data : data \in [1..n -> RowInputs]} :
                       h \in HeaderInputs, n \in 1..(MaxRows - 2)}

\* the ranges of the model: from the tenth of a month of 2024 to the
\* twentieth of a month of 2024 or 2025
FromDates == {DateNumber(2024, m, 10) : m \in 1..12}

ToDates == {DateNumber(y, m, 20) : y \in {2024, 2025}, m \in 1..12}

\* lines 90-94: load the sheet, find the project column, return [] for a
\* sheet without data rows
LoadSheet ==
    /\ pc = "fetch"
    /\ \E sheet \in Sheets :
           /\ rows' = sheet
           /\ project_col' = detect_project_col(sheet)
           /\ pc' = IF Len(sheet) < DATA_START_ROW + 1 THEN "fetched" ELSE "months"
    /\ UNCHANGED <<punches, detVars, pipeVars, needed_months, row_idx, entries,
                   emitted_from, apiVars, cmpVars>>

\* lines 96-112
DetermineMonths ==
    /\ pc = "months"
    /\ needed_months' = NeededMonths(date_from, date_to)
    /\ row_idx' = DATA_START_ROW
    /\ entries' = <<>>
    /\ pc' = "rows"
    /\ UNCHANGED <<punches, detVars, pipeVars, rows, project_col, emitted_from,
                   apiVars, cmpVars>>

\* lines 113-151: one iteration of the loop over rows[DATA_START_ROW:]
ReadRow ==
    /\ pc = "rows"
    /\ row_idx < Len(rows)
    /\ LET row == rows[row_idx + 1]
       IN  IF RowPasses(row, needed_months)
           THEN /\ entries' = Append(entries, RowEntry(row, project_col))
                /\ emitted_from' = Append(emitted_from, row_idx)
           ELSE UNCHANGED <<entries, emitted_from>>
    /\ row_idx' = row_idx + 1
    /\ UNCHANGED <<pc, punches, detVars, pipeVars, rows, project_col, needed_months,
                   apiVars, cmpVars>>

\* line 153
ReturnEntries ==
    /\ pc = "rows"
    /\ row_idx >= Len(rows)
    /\ pc' = "fetched"
    /\ UNCHANGED <<punches, detVars, pipeVars, tabVars, apiVars, cmpVars>>

InitTabell ==
    /\ pc = "fetch"
    /\ punches = <<>>
    /\ sorted_punches = <<>>
    /\ i = 1
    /\ used = {}
    /\ shifts = <<>>
    /\ claimed = <<>>
    /\ date_from \in FromDates
    /\ date_to \in {d \in ToDates : date_from <= d}
    /\ todo = <<>>
    /\ detected = <<>>
    /\ all_shifts = <<>>
    /\ all_broken = <<>>
    /\ tabell_entries = <<>>
    /\ result = NoResult
    /\ TabellIdle
    /\ ApiIdle
    /\ CmpIdle

NextTabell == LoadSheet \/ DetermineMonths \/ ReadRow \/ ReturnEntries

SpecTabell == InitTabell /\ [][NextTabell]_vars

----------------------------------------------------------------------------
(* skud_parser.py *)

\* A workbook cell is None, a string, a native date, a native datetime or a
\* native time.
NoneCell == [t |-> "none"]
StrCell(s) == [t |-> "str", s |-> s]
DateCell(d) == [t |-> "date", d |-> d]
DatetimeCell(d, m) == [t |-> "datetime", d |-> d, m |-> m]
TimeCell(m) == [t |-> "time", m |-> m]

\* -1000 stands for the ValueError of strptime
ParseError == -1000

\* datetime.strptime(s, '%Y-%m-%d').date() on the texts of the model
StrpDate(s) ==
    CASE s = "2025-03-09" -> DateNumber(2025, 3, 9)
      [] s = "2025-03-10" -> DateNumber(2025, 3, 10)
      [] s = "2025-03-11" -> DateNumber(2025, 3, 11)
      [] s = "2025-03-13" -> DateNumber(2025, 3, 13)
      [] OTHER -> ParseError

\* datetime.strptime(s, '%H:%M:%S').time() on the texts of the model
StrpTime(s) ==
    CASE s = "06:00:00" -> 360
      [] s = "17:00:00" -> 1020
      [] OTHER -> ParseError

\* lines 22-29: the first of the rows 1..3 that has a cell equal to
\* 'Employee ID'; 0 stands for None
IsText(cell, s) == IF cell.t = "str" THEN cell.s = s ELSE FALSE

HeaderRowOf(wb) ==
    LET found == {r \in 1..Min(3, Len(wb)) :
                     \E c \in 1..Len(wb[r]) : IsText(wb[r][c], "Employee ID")}
    IN  IF found = {} THEN 0 ELSE CHOOSE r \in found : \A q \in found : r <= q

\* col_map.get(label): the 0-based index of the last truthy cell of the header
\* whose stripped text is the label; -1 stands for None
ColumnOf(cells, label) ==
    LET hits == {c \in 1..Len(cells) :
                    IF cells[c].t = "str"
                    THEN cells[c].s # "" /\ Strip(cells[c].s) = label
                    ELSE FALSE}
    IN  IF hits = {} THEN -1 ELSE (CHOOSE c \in hits : \A h \in hits : h <= c) - 1

CellAt(row, col) == IF col < Len(row) THEN row[col + 1] ELSE NoneCell

\* lines 54-63
PunchDateOf(date_raw) ==
    CASE date_raw.t = "datetime" -> date_raw.d
      [] date_raw.t = "date" -> date_raw.d
      [] date_raw.t = "str" -> StrpDate(Strip(date_raw.s))
      [] OTHER -> ParseError

\* lines 69-78
PunchTimeOf(time_raw) ==
    CASE time_raw.t = "time" -> time_raw.m
      [] time_raw.t = "datetime" -> time_raw.m
      [] time_raw.t = "str" -> StrpTime(Strip(time_raw.s))
      [] OTHER -> ParseError

\* lines 44-86: the punch of one row, or no punch
RowPunches(row, emp_col, date_col, time_col, buffer_from, buffer_to) ==
    LET emp_id_raw == CellAt(row, emp_col)
        date_raw == CellAt(row, date_col)
        time_raw == CellAt(row, time_col)
    IN  IF emp_id_raw.t = "none" \/ date_raw.t = "none" \/ time_raw.t = "none"
        THEN <<>>
        ELSE LET emp_id == IF emp_id_raw.t = "str" THEN Strip(emp_id_raw.s)
                           ELSE "other"
                 punch_date == PunchDateOf(date_raw)
                 punch_time == PunchTimeOf(time_raw)
             IN  IF punch_date = ParseError THEN <<>>
                 ELSE IF punch_date < buffer_from \/ punch_date > buffer_to THEN <<>>
                 ELSE IF punch_time = ParseError THEN <<>>
                 ELSE <<PunchRecord(emp_id, punch_date, punch_time)>>

RECURSIVE RowsPunches(_, _, _, _, _, _, _)
RowsPunches(wb, r, emp_col, date_col, time_col, buffer_from, buffer_to) ==
    IF r > Len(wb) THEN <<>>
    ELSE RowPunches(wb[r], emp_col, date_col, time_col, buffer_from, buffer_to)
             \o RowsPunches(wb, r + 1, emp_col, date_col, time_col,
                            buffer_from, buffer_to)

\* parse_skud_xlsx: the punches, or the ValueError it raises
parse_skud_xlsx(wb, from, to) ==
    LET header_row == HeaderRowOf(wb)
    IN  IF header_row = 0
        THEN [raised |-> "Could not find header row", punches |-> <<>>]
        ELSE LET emp_col == ColumnOf(wb[header_row], "Employee ID")
                 date_col == ColumnOf(wb[header_row], "Date")
                 time_col == ColumnOf(wb[header_row], "Time")
             IN  IF emp_col = -1 \/ date_col = -1 \/ time_col = -1
                 THEN [raised |-> "Missing required columns", punches |-> <<>>]
                 ELSE [raised  |-> "",
                       punches |-> RowsPunches(wb, header_row + 1, emp_col, date_col,
                                               time_col, from - 1, to + 1)]

----------------------------------------------------------------------------
(* detect_all_shifts as one function *)

RECURSIVE DetectLoop(_, _, _, _, _)
DetectLoop(ps, keys, from, to, acc) ==
    IF keys = <<>> THEN acc
    ELSE LET emp_id == Head(keys)
             found == DetectEmployeeShifts(emp_id, PunchesOfEmployee(ps, emp_id))
             valid == ValidShifts(found, from, to)
             broken == BrokenShifts(found, from, to)
         IN  DetectLoop(ps, Tail(keys), from, to,
                        [all_shifts |-> IF valid # <<>>
                                        THEN Put(acc.all_shifts, emp_id, valid)
                                        ELSE acc.all_shifts,
                         all_broken |-> acc.all_broken \o broken])

detect_all_shifts(ps, from, to) ==
    DetectLoop(ps, KeysInOrder(ps, 1, <<>>), from, to,
               [all_shifts |-> <<>>, all_broken |-> <<>>])

----------------------------------------------------------------------------
(* routes.py: api_compare *)

\* the uploads of the model: the data rows are the same in all of them
TitleRow == <<StrCell("SKUD export"), NoneCell>>

DataRows ==
    <<
      <<StrCell("E1"), StrCell("Ann"), DateCell(1), TimeCell(360)>>,
      <<StrCell(" E1 "), NoneCell, StrCell("2025-03-10"), StrCell("17:00:00")>>,
      <<StrCell("E2"), NoneCell, DatetimeCell(3, 0), DatetimeCell(0, 300)>>,
      <<StrCell("E2"), NoneCell, StrCell("2025-03-13"), TimeCell(360)>>,
      <<StrCell("E2"), NoneCell, StrCell("10.03.2025"), TimeCell(360)>>,
      <<StrCell("E2"), NoneCell, DateCell(2), StrCell("6:00")>>,
      <<NoneCell, NoneCell, DateCell(2), TimeCell(360)>>,
      <<StrCell("E2"), NoneCell, DateCell(2)>>
    >>

Book(top) == top \o DataRows

Headers ==
    [full     |-> <<StrCell("Employee ID"), StrCell("Name"), StrCell("Date"),
                    StrCell("Time")>>,
     padded   |-> <<StrCell("Employee ID"), StrCell(""), StrCell(" Date "),
                    StrCell("Time ")>>,
     no_time  |-> <<StrCell("Employee ID"), StrCell("Name"), StrCell("Date"),
                    NoneCell>>,
     no_date  |-> <<StrCell("Employee ID"), StrCell("Name"), StrCell("Day"),
                    StrCell("Time")>>,
     no_id    |-> <<StrCell(" Employee ID "), StrCell("Name"), StrCell("Date"),
                    StrCell("Time")>>]

Workbooks ==
    {Book(<<Headers.full>>),
     Book(<<TitleRow, Headers.full>>),
     Book(<<TitleRow, TitleRow, Headers.padded>>),
     Book(<<TitleRow, TitleRow, TitleRow, Headers.full>>),
     Book(<<TitleRow, Headers.no_time>>),
     Book(<<Headers.no_date>>),
     Book(<<TitleRow, Headers.no_id>>),
     <<>>}

\* date.fromisoformat on the texts of the model
FromIsoFormat(s) ==
    CASE s = "2025-03-10" -> DateNumber(2025, 3, 10)
      [] s = "2025-03-11" -> DateNumber(2025, 3, 11)
      [] OTHER -> ParseError

EndsWithXlsx(name) == name \in {"skud.xlsx", ".xlsx"}

Forms ==
    {Form(FALSE, TRUE, "skud.xlsx", <<>>, "2025-03-10", "2025-03-11"),
     Form(TRUE, FALSE, "", <<>>, "2025-03-10", "2025-03-11"),
     Form(TRUE, TRUE, "", <<>>, "2025-03-10", "2025-03-11"),
     Form(TRUE, TRUE, "skud.csv", <<>>, "2025-03-10", "2025-03-11"),
     Form(TRUE, TRUE, "skud.xlsx", <<>>, "", "2025-03-11"),
     Form(TRUE, TRUE, "skud.xlsx", <<>>, "2025-03-10", "11.03.2025"),
     Form(TRUE, TRUE, "skud.xlsx", <<>>, "2025-03-11", "2025-03-10")}
        \cup {Form(TRUE, TRUE, "skud.xlsx", wb, "2025-03-10", to_str) :
                  wb \in Workbooks, to_str \in {"2025-03-10", "2025-03-11"}}

ErrorResponse(status, message) ==
    [status |-> status, error |-> message, result |-> NoResult]

\* lines 24-44: the response of a failed validation, NoResponse when the form
\* passes
Validation(form) ==
    IF ~form.has_file THEN ErrorResponse(400, "No file uploaded")
    ELSE IF form.filename = "" \/ ~EndsWithXlsx(form.filename)
         THEN ErrorResponse(400, "File must be .xlsx")
    ELSE IF form.date_from = "" \/ form.date_to = ""
         THEN ErrorResponse(400, "Date range is required")
    ELSE IF FromIsoFormat(form.date_from) = ParseError
                \/ FromIsoFormat(form.date_to) = ParseError
         THEN ErrorResponse(400, "Invalid date format. Use YYYY-MM-DD")
    ELSE IF FromIsoFormat(form.date_from) > FromIsoFormat(form.date_to)
         THEN ErrorResponse(400, "Start date must be before end date")
    ELSE NoResponse

\* the request arrives with its form
Receive ==
    \E r \in Requests :
        /\ handler[r].pc = "idle"
        /\ \E form \in Forms :
               handler' = [handler EXCEPT ![r] = [Idle EXCEPT !.pc = "validate",
                                                              !.form = form]]
        /\ UNCHANGED <<upload_folder, issued>>

\* login_required, then lines 24-44
Validate ==
    \E r \in Requests :
        /\ handler[r].pc = "validate"
        /\ LET form == handler[r].form
           IN  IF ~form.authenticated
               THEN handler' = [handler EXCEPT ![r].pc = "done",
                                               ![r].response =
                                                   [status |-> 302, error |-> "",
                                                    result |-> NoResult]]
               ELSE IF Validation(form) # NoResponse
               THEN handler' = [handler EXCEPT ![r].pc = "done",
                                               ![r].response = Validation(form)]
               ELSE handler' = [handler EXCEPT
                                    ![r].pc = "save",
                                    ![r].date_from = FromIsoFormat(form.date_from),
                                    ![r].date_to = FromIsoFormat(form.date_to)]
        /\ UNCHANGED <<upload_folder, issued>>

\* lines 47-49.  uuid4 draws 122 random bits; the model gives each request a
\* name that no request was given before.
SaveUpload ==
    \E r \in Requests :
        /\ handler[r].pc = "save"
        /\ issued' = issued + 1
        /\ upload_folder' = Put(upload_folder, issued + 1, handler[r].form.workbook)
        /\ handler' = [handler EXCEPT ![r].pc = "parse", ![r].filepath = issued + 1]

\* line 53; an exception goes to the except clause of lines 68-69
ParseSkud ==
    \E r \in Requests :
        /\ handler[r].pc = "parse"
        /\ IF handler[r].filepath \notin DOMAIN upload_folder
           THEN handler' = [handler EXCEPT
                                ![r].pc = "finally",
                                ![r].returning = ErrorResponse(500, "No such file")]
           ELSE LET parsed == parse_skud_xlsx(upload_folder[handler[r].filepath],
                                              handler[r].date_from, handler[r].date_to)
                IN  IF parsed.raised # ""
                    THEN handler' = [handler EXCEPT
                                         ![r].pc = "finally",
                                         ![r].returning =
                                             ErrorResponse(500, parsed.raised)]
                    ELSE handler' = [handler EXCEPT ![r].pc = "fetch",
                                                    ![r].punches = parsed.punches]
        /\ UNCHANGED <<upload_folder, issued>>

\* lines 56-58: fetch_tabell returns the entries of the sheet, or urlopen
\* raises
FetchTabell ==
    \E r \in Requests :
        /\ handler[r].pc = "fetch"
        /\ \/ \E tes \in TabellInputs :
                  handler' = [handler EXCEPT ![r].pc = "detect",
                                             ![r].tabell_entries = tes]
           \/ handler' = [handler EXCEPT
                              ![r].pc = "finally",
                              ![r].returning = ErrorResponse(500, "urlopen error")]
        /\ UNCHANGED <<upload_folder, issued>>

\* lines 61-66: the result, or an exception of the detector or the comparator
\* that the except clause of lines 68-69 catches
DetectAndCompare ==
    \E r \in Requests :
        /\ handler[r].pc = "detect"
        /\ LET h == handler[r]
               found == detect_all_shifts(h.punches, h.date_from, h.date_to)
           IN  \/ handler' = [handler EXCEPT
                                  ![r].pc = "finally",
                                  ![r].returning =
                                      [status |-> 200, error |-> "",
                                       result |-> Compare(found.all_shifts,
                                                          found.all_broken,
                                                          h.tabell_entries,
                                                          h.date_from, h.date_to)]]
               \/ handler' = [handler EXCEPT
                                  ![r].pc = "finally",
                                  ![r].returning = ErrorResponse(500, "exception")]
        /\ UNCHANGED <<upload_folder, issued>>

\* variant: the cleanup empties the folder
RemoveAllFiles(folder, filepath) == <<>>

\* lines 71-72: os.remove(filepath) if the file exists
RemoveFile(folder, filepath) == [f \in DOMAIN folder \ {filepath} |-> folder[f]]

\* lines 70-72, then the response leaves
Finally ==
    \E r \in Requests :
        /\ handler[r].pc = "finally"
        /\ upload_folder' = RemoveFile(upload_folder, handler[r].filepath)
        /\ handler' = [handler EXCEPT ![r].pc = "done",
                                      ![r].response = handler[r].returning]
        /\ UNCHANGED issued

InitApi ==
    /\ pc = "serve"
    /\ punches = <<>>
    /\ sorted_punches = <<>>
    /\ i = 1
    /\ used = {}
    /\ shifts = <<>>
    /\ claimed = <<>>
    /\ PipeIdle
    /\ TabellIdle
    /\ ApiIdle
    /\ CmpIdle

NextApi ==
    \/ (Receive /\ UNCHANGED <<pc, punches, detVars, pipeVars, tabVars, cmpVars>>)
    \/ (Validate /\ UNCHANGED <<pc, punches, detVars, pipeVars, tabVars, cmpVars>>)
    \/ (SaveUpload /\ UNCHANGED <<pc, punches, detVars, pipeVars, tabVars, cmpVars>>)
    \/ (ParseSkud /\ UNCHANGED <<pc, punches, detVars, pipeVars, tabVars, cmpVars>>)
    \/ (FetchTabell /\ UNCHANGED <<pc, punches, detVars, pipeVars, tabVars, cmpVars>>)
    \/ (DetectAndCompare /\ UNCHANGED <<pc, punches, detVars, pipeVars, tabVars, cmpVars>>)
    \/ (Finally /\ UNCHANGED <<pc, punches, detVars, pipeVars, tabVars, cmpVars>>)

SpecApi == InitApi /\ [][NextApi]_vars

----------------------------------------------------------------------------
(* The pipeline of api_compare on two orders of one punch list *)

\* routes.py lines 61-64: detect_all_shifts, then compare
Pipeline(ps, tes, from, to) ==
    LET found == detect_all_shifts(ps, from, to)
    IN  [shifts_by_employee |-> found.all_shifts,
         broken_shifts      |-> found.all_broken,
         result             |-> Compare(found.all_shifts, found.all_broken, tes,
                                        from, to)]

\* the punches of the lists: E1 on the first date at 06:00, 17:00 and 23:00
\* and on the second date at 05:00, 06:00 and 17:00, E2 on the first date at
\* 06:00 and 23:00
OrderPunches ==
    {PunchRecord("E1", 1, t) : t \in {360, 1020, 1380}}
        \cup {PunchRecord("E1", 2, t) : t \in {300, 360, 1020}}
        \cup {PunchRecord("E2", 1, t) : t \in {360, 1380}}

\* the rows of the upload, here in ascending order
OrderReadPunch ==
    /\ pc = "order"
    /\ Len(punches) < MaxPunches
    /\ \E p \in OrderPunches :
           /\ IF punches = <<>> THEN TRUE ELSE MayFollow(p, punches[Len(punches)])
           /\ punches' = Append(punches, p)
    /\ UNCHANGED <<pc, detVars, pipeVars, tabVars, apiVars, cmpVars>>

\* the same rows in any other order
Reorder ==
    /\ pc = "order"
    /\ \E perm \in Permutations(1..Len(punches)) :
           reordered' = [k \in 1..Len(punches) |-> punches[perm[k]]]
    /\ pc' = "reordered"
    /\ UNCHANGED <<punches, detVars, pipeVars, tabVars, apiVars, kept, outcomes>>

\* the pipeline on both lists, with the same tabell entries and range
RunBothOrders ==
    /\ pc = "reordered"
    /\ \E tes \in TabellInputs :
           /\ tabell_entries' = tes
           /\ outcomes' = <<Pipeline(punches, tes, date_from, date_to),
                            Pipeline(reordered, tes, date_from, date_to)>>
    /\ pc' = "compared"
    /\ UNCHANGED <<punches, detVars, date_from, date_to, todo, detected, all_shifts,
                   all_broken, result, tabVars, apiVars, reordered, kept>>

InitOrder ==
    /\ pc = "order"
    /\ punches = <<>>
    /\ sorted_punches = <<>>
    /\ i = 1
    /\ used = {}
    /\ shifts = <<>>
    /\ claimed = <<>>
    /\ date_from = 1
    /\ date_to \in RangeDates
    /\ todo = <<>>
    /\ detected = <<>>
    /\ all_shifts = <<>>
    /\ all_broken = <<>>
    /\ tabell_entries = <<>>
    /\ result = NoResult
    /\ TabellIdle
    /\ ApiIdle
    /\ CmpIdle

NextOrder == OrderReadPunch \/ Reorder \/ RunBothOrders

SpecOrder == InitOrder /\ [][NextOrder]_vars

----------------------------------------------------------------------------
(* parse_skud_xlsx keeps the buffered range; detect_all_shifts on what it *)
(* keeps and on the complete punch set                                    *)

\* variant: no day is added on either side of the range
InBufferNone(p, from, to) == ~(p.punch_date < from \/ p.punch_date > to)

\* skud_parser.py lines 16-17 and 66: buffer_from, buffer_to and the filter
InBuffer(p, from, to) == ~(p.punch_date < from - 1 \/ p.punch_date > to + 1)

KeptPunches(ps, from, to) == SelectSeq(ps, LAMBDA p : InBuffer(p, from, to))

\* what detect_all_shifts returns
DetectOutcome(ps, from, to) ==
    LET found == detect_all_shifts(ps, from, to)
    IN  [shifts_by_employee |-> found.all_shifts,
         broken_shifts      |-> found.all_broken]

\* the punches of the complete set: E1 on five dates at 04:10, 05:00, 06:00,
\* 17:00 and 23:00, E2 on the first date at 06:00 and on the third at 23:00;
\* the range starts on the third date
BufferDates == 1..5

BufferPunches ==
    {PunchRecord("E1", d, t) : d \in BufferDates, t \in {250, 300, 360, 1020, 1380}}
        \cup {PunchRecord("E2", 1, 360), PunchRecord("E2", 3, 1380)}

\* the rows of the export, in ascending order
BufferReadPunch ==
    /\ pc = "export"
    /\ Len(punches) < MaxPunches
    /\ \E p \in BufferPunches :
           /\ IF punches = <<>> THEN TRUE ELSE MayFollow(p, punches[Len(punches)])
           /\ punches' = Append(punches, p)
    /\ UNCHANGED <<pc, detVars, pipeVars, tabVars, apiVars, cmpVars>>

\* detect_all_shifts on the punches parse_skud_xlsx keeps, and on all of them
DetectKeptAndAll ==
    /\ pc = "export"
    /\ kept' = KeptPunches(punches, date_from, date_to)
    /\ outcomes' = <<DetectOutcome(punches, date_from, date_to),
                     DetectOutcome(KeptPunches(punches, date_from, date_to),
                                   date_from, date_to)>>
    /\ pc' = "buffered"
    /\ UNCHANGED <<punches, detVars, pipeVars, tabVars, apiVars, reordered>>

InitBuffer ==
    /\ pc = "export"
    /\ punches = <<>>
    /\ sorted_punches = <<>>
    /\ i = 1
    /\ used = {}
    /\ shifts = <<>>
    /\ claimed = <<>>
    /\ date_from = 3
    /\ date_to \in {3, 4}
    /\ todo = <<>>
    /\ detected = <<>>
    /\ all_shifts = <<>>
    /\ all_broken = <<>>
    /\ tabell_entries = <<>>
    /\ result = NoResult
    /\ TabellIdle
    /\ ApiIdle
    /\ CmpIdle

NextBuffer == BufferReadPunch \/ DetectKeptAndAll

SpecBuffer == InitBuffer /\ [][NextBuffer]_vars

----------------------------------------------------------------------------
(* Properties of _detect_employee_shifts, checked under SpecDetect *)

ClaimsOf(idx) == {k \in 1..Len(claimed) : claimed[k].idx = idx}
EntriesOf(sh, role) ==
    {k \in 1..Len(claimed) : claimed[k].shift = sh /\ claimed[k].role = role}

\* C1: every punch is claimed exactly once.  No punch index is ever claimed
\* twice (so a punch claimed in one pass is not a start, an end, a swallowed
\* intermediate or a broken punch of a later pass); the used set is exactly
\* the punches claimed by a paired shift; every paired shift has exactly one
\* start and one end punch, which are the punches its datetimes come from, and
\* its swallowed intermediates are none of its endpoints; every broken shift
\* has exactly one punch; and when the function returns the number of claimed
\* punches is |P|.
C1_EveryPunchClaimedOnce ==
    /\ \A idx \in 1..Len(sorted_punches) : Cardinality(ClaimsOf(idx)) <= 1
    /\ used = {claimed[k].idx : k \in {m \in 1..Len(claimed) : claimed[m].role # "broken"}}
    /\ \A sh \in 1..Len(shifts) :
           IF shifts[sh].shift_type = "broken"
           THEN /\ Cardinality(EntriesOf(sh, "broken")) = 1
                /\ {k \in 1..Len(claimed) : claimed[k].shift = sh} = EntriesOf(sh, "broken")
                /\ \A k \in EntriesOf(sh, "broken") :
                       sorted_punches[claimed[k].idx].punch_datetime = shifts[sh].start_punch
           ELSE /\ Cardinality(EntriesOf(sh, "start")) = 1
                /\ Cardinality(EntriesOf(sh, "end")) = 1
                /\ EntriesOf(sh, "broken") = {}
                /\ \A k \in EntriesOf(sh, "start") :
                       sorted_punches[claimed[k].idx].punch_datetime = shifts[sh].start_punch
                /\ \A k \in EntriesOf(sh, "end") :
                       sorted_punches[claimed[k].idx].punch_datetime = shifts[sh].end_punch
    /\ \A k \in 1..Len(claimed) : claimed[k].shift \in 1..Len(shifts)
    /\ pc = "done" =>
           /\ Len(claimed) = Len(punches)
           /\ \A idx \in 1..Len(punches) : Cardinality(ClaimsOf(idx)) = 1

\* C1, its case: a finished run of four punches in which one pass swallowed an
\* intermediate, a later pass paired two punches and Pass 4 emitted a broken one
C1_Witness ==
    /\ pc = "done"
    /\ Len(punches) = MaxPunches
    /\ \E a, b, c \in 1..Len(claimed) :
           /\ claimed[a].role = "mid"
           /\ claimed[b].role = "start" /\ claimed[b].pass = 1
           /\ claimed[c].role = "broken"
    /\ \E sh \in 1..Len(shifts) : shifts[sh].shift_type = "day"

\* C3: every DAY shift starts, ends and is attributed on one calendar date
\* and has at most 12.5 hours
C3_DayShiftSameDateAtMost12h30 ==
    \A sh \in 1..Len(shifts) :
        shifts[sh].shift_type = "day" =>
            /\ DateOf(shifts[sh].start_punch) = shifts[sh].attributed_date
            /\ DateOf(shifts[sh].end_punch) = shifts[sh].attributed_date
            /\ shifts[sh].hours <= 125
            /\ shifts[sh].end_punch - shifts[sh].start_punch <= 750

\* C3, its case: a morning punch and a same-date afternoon punch more than
\* 12.5 hours apart were left unpaired by Pass 1 while another DAY shift exists
C3_Witness ==
    /\ pc = "done"
    /\ \E sh \in 1..Len(shifts) : shifts[sh].shift_type = "day"
    /\ \E a, b \in 1..Len(sorted_punches) :
           /\ sorted_punches[a].punch_date = sorted_punches[b].punch_date
           /\ HourOf(sorted_punches[a].punch_datetime) \in 4..10
           /\ HourOf(sorted_punches[b].punch_datetime) \in 14..20
           /\ sorted_punches[b].punch_datetime - sorted_punches[a].punch_datetime > 750
           /\ \A sh \in 1..Len(shifts) :
                  shifts[sh].start_punch # sorted_punches[a].punch_datetime

\* the pass that emitted shift sh
PassOfShift(sh) == claimed[CHOOSE k \in 1..Len(claimed) : claimed[k].shift = sh].pass

\* C4: a NIGHT shift of Pass 2 ends on the date after its start and is
\* attributed to its start date; a NIGHT shift of Pass 3 ends on its start
\* date, starts at an hour in 0..4 and is attributed to the date before
C4_NightShiftDates ==
    \A sh \in 1..Len(shifts) :
        shifts[sh].shift_type = "night" =>
            /\ PassOfShift(sh) \in {2, 3}
            /\ PassOfShift(sh) = 2 =>
                   /\ DateOf(shifts[sh].end_punch) = DateOf(shifts[sh].start_punch) + 1
                   /\ shifts[sh].attributed_date = DateOf(shifts[sh].start_punch)
            /\ PassOfShift(sh) = 3 =>
                   /\ DateOf(shifts[sh].end_punch) = DateOf(shifts[sh].start_punch)
                   /\ HourOf(shifts[sh].start_punch) \in 0..4
                   /\ shifts[sh].attributed_date = DateOf(shifts[sh].start_punch) - 1

\* C4, its case: a finished run with a NIGHT shift of Pass 2 and one of Pass 3
C4_Witness ==
    /\ pc = "done"
    /\ \E a, b \in 1..Len(shifts) :
           /\ shifts[a].shift_type = "night" /\ PassOfShift(a) = 2
           /\ shifts[b].shift_type = "night" /\ PassOfShift(b) = 3

----------------------------------------------------------------------------
(* Properties of detect_all_shifts and compare, checked under Spec *)

\* scenario S4: 2025-03-10 06:00, 16:00, 17:00 and 2025-03-11 05:00
ScenarioS4 ==
    <<PunchRecord("E1", 1, 360), PunchRecord("E1", 1, 960),
      PunchRecord("E1", 1, 1020), PunchRecord("E1", 2, 300)>>

RanS4 ==
    /\ pc \in {"compare", "done"}
    /\ punches = ScenarioS4
    /\ date_from = 1
    /\ date_to = 2

ShiftsOfType(e, ty) ==
    IF e \in DOMAIN detected
    THEN {detected[e][k] : k \in {m \in 1..Len(detected[e]) :
                                      detected[e][m].shift_type = ty}}
    ELSE {}

\* C2 as stated: S4 yields the DAY shift 06:00-16:00 (10 h) and the NIGHT
\* shift 17:00-05:00 (12 h), both attributed to 2025-03-10, and no broken shift
C2_S4DayAndNight ==
    RanS4 =>
        /\ DOMAIN all_shifts = {"E1"}
        /\ {all_shifts["E1"][k] : k \in 1..Len(all_shifts["E1"])}
               = {Shift("E1", "day", 1, 1800, 2400, 100),
                  Shift("E1", "night", 1, 2460, 3180, 120)}
        /\ all_broken = <<>>

\* C2 as amended: S4 yields one DAY shift 06:00-17:00 (11 h) attributed to
\* 2025-03-10, which swallows the 16:00 punch, and the 05:00 punch of
\* 2025-03-11 as a broken shift, and no NIGHT shift; and whenever an employee
\* has a DAY shift and an overnight NIGHT shift attributed to one date, the
\* NIGHT shift starts at an hour in 21..23, outside the day-end window
C2_S4DayAndBroken ==
    /\ RanS4 =>
           /\ DOMAIN all_shifts = {"E1"}
           /\ all_shifts["E1"] = <<Shift("E1", "day", 1, 1800, 2460, 110)>>
           /\ all_broken = <<Shift("E1", "broken", 2, 3180, NoPunch, 0)>>
    /\ \A e \in Employees :
           \A d \in ShiftsOfType(e, "day"), n \in ShiftsOfType(e, "night") :
               /\ d.attributed_date = n.attributed_date
               /\ DateOf(n.end_punch) = DateOf(n.start_punch) + 1
               => HourOf(n.start_punch) \in 21..23

\* C2, its case: detect_all_shifts has returned for the punches of S4
C2_Witness == RanS4 /\ pc = "done"

Count(s, x) == Cardinality({k \in 1..Len(s) : s[k] = x})

\* C5: no returned shift is attributed outside [date_from, date_to];
\* shifts_by_employee holds only non-broken shifts, each under its own
\* employee, and no empty list; broken_shifts holds only broken shifts; and every
\* in-range shift the passes produced is, as often as it was produced, in
\* exactly one of the two
C5_RangeFilterPartitions ==
    /\ \A e \in DOMAIN all_shifts :
           /\ all_shifts[e] # <<>>
           /\ \A k \in 1..Len(all_shifts[e]) :
                  /\ date_from <= all_shifts[e][k].attributed_date
                  /\ all_shifts[e][k].attributed_date <= date_to
                  /\ all_shifts[e][k].shift_type \in {"day", "night"}
                  /\ all_shifts[e][k].employee_id = e
    /\ \A k \in 1..Len(all_broken) :
           /\ date_from <= all_broken[k].attributed_date
           /\ all_broken[k].attributed_date <= date_to
           /\ all_broken[k].shift_type = "broken"
    /\ \A e \in DOMAIN detected :
           \A k \in 1..Len(detected[e]) :
               LET s == detected[e][k]
                   paired == IF e \in DOMAIN all_shifts THEN Count(all_shifts[e], s) ELSE 0
               IN  (date_from <= s.attributed_date /\ s.attributed_date <= date_to)
                   => /\ Count(detected[e], s) = paired + Count(all_broken, s)
                      /\ paired = 0 \/ Count(all_broken, s) = 0
                      /\ \A f \in DOMAIN all_shifts \ {e} : Count(all_shifts[f], s) = 0

\* C5, its case: two employees were processed, a shift attributed outside the
\* range was dropped, and a paired and a broken shift were kept
C5_Witness ==
    /\ pc = "done"
    /\ DOMAIN detected = Employees
    /\ \E e \in Employees :
           \E k \in 1..Len(detected[e]) :
               \/ detected[e][k].attributed_date < date_from
               \/ detected[e][k].attributed_date > date_to
    /\ all_shifts # <<>>
    /\ all_broken # <<>>

\* C6 as stated: total_employees_skud is the size of the union of the
\* employees with a non-broken shift and the employees with a broken shift
C6_TotalSkudIsUnion ==
    pc = "done" =>
        result.summary.total_employees_skud
            = Cardinality(DOMAIN all_shifts
                          \cup {all_broken[k].employee_id : k \in 1..Len(all_broken)})

RECURSIVE ExactMinutes(_, _, _)
ExactMinutes(ss, k, d) ==
    IF k > Len(ss) THEN 0
    ELSE (IF ss[k].attributed_date = d THEN ss[k].end_punch - ss[k].start_punch ELSE 0)
             + ExactMinutes(ss, k + 1, d)

\* the nearest tenth of an hour; no duration of the model is at a half
NearestTenth(minutes) == (minutes + 3) \div 6

RECURSIVE RoundedTenths(_, _, _)
RoundedTenths(ss, k, d) ==
    IF k > Len(ss) THEN 0
    ELSE (IF ss[k].attributed_date = d
          THEN NearestTenth(ss[k].end_punch - ss[k].start_punch) ELSE 0)
             + RoundedTenths(ss, k + 1, d)

ShiftsOf(e) == IF e \in DOMAIN all_shifts THEN all_shifts[e] ELSE <<>>

\* C9 as stated: the skud value of a cell is the sum of the exact durations of
\* the non-broken shifts of that employee and date, rounded once
C9_SkudRoundedOnce ==
    pc = "done" =>
        \A r \in 1..Len(result.comparison) :
            \A d \in date_from..date_to :
                result.comparison[r].days[d].skud
                    = NearestTenth(ExactMinutes(ShiftsOf(result.comparison[r].employee_id),
                                                1, d))

\* C9 as amended: the skud value of a cell is the sum, over the non-broken
\* shifts of that employee and date, of each shift's duration already rounded
\* to one decimal (the sum is then rounded to one decimal again)
C9_SkudSumOfRounded ==
    pc = "done" =>
        \A r \in 1..Len(result.comparison) :
            \A d \in date_from..date_to :
                result.comparison[r].days[d].skud
                    = RoundedTenths(ShiftsOf(result.comparison[r].employee_id), 1, d)

\* C9, its case: a row has a date with two shifts whose rounded durations add
\* up to another tenth than their exact durations do
C9_Witness ==
    /\ pc = "done"
    /\ \E r \in 1..Len(result.comparison) :
           \E d \in date_from..date_to :
               LET ss == ShiftsOf(result.comparison[r].employee_id)
               IN  /\ Cardinality({k \in 1..Len(ss) : ss[k].attributed_date = d}) = 2
                   /\ RoundedTenths(ss, 1, d) # NearestTenth(ExactMinutes(ss, 1, d))

----------------------------------------------------------------------------
(* Properties of fetch_tabell, checked under SpecTabell *)

\* the month numbers of the dates of [from, to]: month m is covered when some
\* year has a day of month m inside the range
CoveredMonths(from, to) ==
    {m \in 1..12 :
        \E y \in YearOfDate(from)..YearOfDate(to) :
            /\ DateNumber(y, m, 1) <= to
            /\ DateNumber(y, m, DaysInMonth(y, m)) >= from}

EmittedRows == {emitted_from[k] : k \in 1..Len(emitted_from)}

\* the data rows with a non-empty employee ID and a recognised month name
RecognisedRows ==
    {r \in DATA_START_ROW..(Len(rows) - 1) :
        /\ rows[r + 1].len > COL_MONTH
        /\ EmployeeIdOf(rows[r + 1]) # ""
        /\ MonthStrOf(rows[r + 1]) \in DOMAIN MONTH_MAP}

\* C7: when fetch_tabell has returned, a data row with a non-empty employee ID
\* and a recognised month name was emitted if and only if its month is the
\* month of at least one date of [date_from, date_to].
C7_EmittedIffMonthCovered ==
    pc = "fetched" =>
        \A r \in RecognisedRows :
            r \in EmittedRows
                <=> MONTH_MAP[MonthStrOf(rows[r + 1])] \in CoveredMonths(date_from, date_to)

\* C8 as stated: every entry comes from a row of index 1 or more, its
\* daily_hours[d] is parse_hours of the cell at column 3 + d and its month is
\* the name in column 35; and every row from index 1 on whose column 0 holds
\* an employee ID and whose column 35 holds a selected month is emitted.
DocumentedMonthOf(row) == Lower(Strip(Cell(row, 35)))

C8_DocumentedLayout ==
    pc = "fetched" =>
        /\ \A k \in 1..Len(entries) :
               LET row == rows[emitted_from[k] + 1]
               IN  /\ emitted_from[k] >= 1
                   /\ entries[k].month = Capitalize(DocumentedMonthOf(row))
                   /\ \A d \in 1..31 :
                          entries[k].daily_hours[d] = parse_hours(Cell(row, 3 + d))
        /\ \A r \in 1..(Len(rows) - 1) :
               (/\ rows[r + 1].len > 35
                /\ EmployeeIdOf(rows[r + 1]) # ""
                /\ DocumentedMonthOf(rows[r + 1]) \in DOMAIN MONTH_MAP
                /\ MONTH_MAP[DocumentedMonthOf(rows[r + 1])] \in needed_months)
                   => r \in EmittedRows

\* C8, as the code decodes: rows 0 and 1 are both discarded and the data rows
\* start at index 2; an entry comes from a row with more than 118 cells, its
\* daily_hours has the days 1..31, daily_hours[d] is parse_hours of the cell at
\* column 9 + d (columns 10..40), and its month is the name in column 118,
\* capitalised; the entries are in row order, and when fetch_tabell has
\* returned, every row from index 2 on with more than 118 cells, an employee ID
\* in column 0 and a selected month in column 118 has its entry.
C8_CodeLayout ==
    /\ \A k \in 1..Len(entries) :
           LET row == rows[emitted_from[k] + 1]
           IN  /\ emitted_from[k] >= 2
               /\ emitted_from[k] < Len(rows)
               /\ row.len > 118
               /\ entries[k].month = Capitalize(Lower(Strip(Cell(row, 118))))
               /\ DOMAIN entries[k].daily_hours = 1..31
               /\ \A d \in 1..31 :
                      entries[k].daily_hours[d] = parse_hours(Cell(row, 9 + d))
    /\ Len(emitted_from) = Len(entries)
    /\ \A k \in 1..(Len(emitted_from) - 1) : emitted_from[k] < emitted_from[k + 1]
    /\ pc = "fetched" =>
           \A r \in 2..(Len(rows) - 1) :
               (/\ rows[r + 1].len > 118
                /\ EmployeeIdOf(rows[r + 1]) # ""
                /\ Lower(Strip(Cell(rows[r + 1], 118))) \in DOMAIN MONTH_MAP
                /\ MONTH_MAP[Lower(Strip(Cell(rows[r + 1], 118)))] \in needed_months)
                   => r \in EmittedRows

\* a sheet whose row 1 is filled like a data row and is not emitted, and an
\* entry of a row whose cells at columns 3 + d and 9 + d parse differently
C8_Witness ==
    /\ pc = "fetched"
    /\ Len(rows) >= 3
    /\ rows[2] \in RowInputs
    /\ 1 \notin EmittedRows
    /\ \E k \in 1..Len(entries) :
           \E d \in 1..31 :
               /\ entries[k].daily_hours[d] # 0
               /\ entries[k].daily_hours[d]
                      # parse_hours(Cell(rows[emitted_from[k] + 1], 3 + d))

----------------------------------------------------------------------------
(* Properties of api_compare, checked under SpecApi *)

\* the upload has a header row among its first three rows, and the header has
\* no cell for one of the required columns
LacksRequiredColumn(wb) ==
    /\ HeaderRowOf(wb) # 0
    /\ \E label \in {"Employee ID", "Date", "Time"} :
           \A c \in 1..Len(wb[HeaderRowOf(wb)]) :
               LET cell == wb[HeaderRowOf(wb)][c]
               IN  IF cell.t = "str" THEN Strip(cell.s) # label ELSE TRUE

\* C10: a request that passed the validation of the form and whose workbook
\* has a header row without one of the columns Employee ID, Date, Time is
\* answered with an error, status 400 and no result.
C10_MissingColumnIs400 ==
    \A r \in Requests :
        (/\ handler[r].pc = "done"
         /\ handler[r].form.authenticated
         /\ Validation(handler[r].form) = NoResponse
         /\ LacksRequiredColumn(handler[r].form.workbook))
            => /\ handler[r].response.status = 400
               /\ handler[r].response.error # ""
               /\ handler[r].response.result = NoResult

\* the requests that hold a staged file: from file.save to the finally clause
Staging(r) == handler[r].pc \in {"parse", "fetch", "detect", "finally"}

\* C11: a request staged its upload under a name that no other request was
\* given; while the request runs, its file exists and still holds its own
\* upload, whatever the other requests do, and the punches it parsed are those
\* of its own upload; when a request that staged a file has finished, with a
\* result or with an error, its file no longer exists.
C11_StagedFileIsOwnAndRemoved ==
    \A r \in Requests :
        /\ Staging(r) =>
               /\ handler[r].filepath \in DOMAIN upload_folder
               /\ upload_folder[handler[r].filepath] = handler[r].form.workbook
               /\ \A q \in Requests \ {r} : handler[q].filepath # handler[r].filepath
        /\ handler[r].pc \in {"fetch", "detect"} =>
               handler[r].punches
                   = parse_skud_xlsx(handler[r].form.workbook, handler[r].date_from,
                                     handler[r].date_to).punches
        /\ handler[r].pc = "done" => handler[r].filepath \notin DOMAIN upload_folder
        /\ handler[r].pc \in {"idle", "validate", "save"} => handler[r].filepath = 0

\* r2 staged its upload first and is still parsing a different workbook; r1
\* staged afterwards and has finished with the error of the except clause, its
\* file is gone and the file of r2 is still there
C11_Witness ==
    /\ handler["r2"].pc = "parse"
    /\ handler["r2"].filepath = 1
    /\ handler["r1"].pc = "done"
    /\ handler["r1"].filepath = 2
    /\ handler["r1"].response.status = 500
    /\ handler["r1"].form.workbook # handler["r2"].form.workbook
    /\ DOMAIN upload_folder = {1}

----------------------------------------------------------------------------
(* Properties of the pipeline on two orders of the punches, under SpecOrder *)

BrokenOf(out, e) == SelectSeq(out.broken_shifts, LAMBDA s : s.employee_id = e)

\* C12: for two orders of the same punches, with the same tabell entries and
\* range, detect_all_shifts and compare give the same shifts of every employee,
\* the same broken shifts of every employee, and the same result: the
\* comparison rows in ascending employee-ID order with the same cells, the
\* broken shifts in (employee_id, attributed_date) order, the same summary.
C12_OrderIndependent ==
    pc = "compared" =>
        /\ outcomes[1].shifts_by_employee = outcomes[2].shifts_by_employee
        /\ \A e \in Employees : BrokenOf(outcomes[1], e) = BrokenOf(outcomes[2], e)
        /\ outcomes[1].result = outcomes[2].result
        /\ \A n \in 1..2 :
               LET res == outcomes[n].result
               IN  /\ \A k \in 1..(Len(res.comparison) - 1) :
                          EmpRank(res.comparison[k].employee_id)
                              < EmpRank(res.comparison[k + 1].employee_id)
                   /\ \A k \in 1..(Len(res.broken_shifts) - 1) :
                          LET a == res.broken_shifts[k]
                              b == res.broken_shifts[k + 1]
                          IN  \/ EmpRank(a.employee_id) < EmpRank(b.employee_id)
                              \/ /\ a.employee_id = b.employee_id
                                 /\ a.attributed_date <= b.attributed_date

\* the two lists start with different employees, detect_all_shifts returns the
\* broken shifts of the two lists in different orders, one list is not in time
\* order, and there are a paired shift, broken shifts of both employees and
\* two comparison rows
C12_Witness ==
    /\ pc = "compared"
    /\ Len(punches) >= 2
    /\ punches[1].employee_id # reordered[1].employee_id
    /\ outcomes[1].broken_shifts # outcomes[2].broken_shifts
    /\ \E k \in 1..(Len(reordered) - 1) :
           reordered[k].punch_datetime > reordered[k + 1].punch_datetime
    /\ "E1" \in DOMAIN outcomes[1].shifts_by_employee
    /\ \A e \in Employees : BrokenOf(outcomes[1], e) # <<>>
    /\ Len(outcomes[1].result.comparison) = 2

----------------------------------------------------------------------------
(* More properties of _detect_employee_shifts, checked under SpecDetect *)

PairedShifts == {sh \in 1..Len(shifts) : shifts[sh].shift_type # "broken"}

\* C13: among the shifts of the employee, no two DAY shifts and no two NIGHT
\* shifts have the same attributed date - so a NIGHT shift of Pass 2 that
\* starts on date D and a NIGHT shift of Pass 3 on date D + 1 never both
\* exist - and of two paired shifts one ends no later than the other starts.
C13_OnePerDateNoOverlap ==
    \A a, b \in PairedShifts :
        a # b =>
            /\ ~(/\ shifts[a].shift_type = shifts[b].shift_type
                 /\ shifts[a].attributed_date = shifts[b].attributed_date)
            /\ ~(/\ PassOfShift(a) = 2
                 /\ PassOfShift(b) = 3
                 /\ DateOf(shifts[b].start_punch) = DateOf(shifts[a].start_punch) + 1)
            /\ \/ shifts[a].end_punch <= shifts[b].start_punch
               \/ shifts[b].end_punch <= shifts[a].start_punch

\* a finished run with a DAY shift and a NIGHT shift attributed to one date,
\* the NIGHT shift starting on that date after the punch that ended the DAY
\* shift
C13_Witness ==
    /\ pc = "done"
    /\ \E a, b \in PairedShifts :
           /\ shifts[a].shift_type = "day"
           /\ shifts[b].shift_type = "night"
           /\ shifts[a].attributed_date = shifts[b].attributed_date
           /\ shifts[a].end_punch < shifts[b].start_punch
           /\ DateOf(shifts[a].end_punch) = DateOf(shifts[b].start_punch)

----------------------------------------------------------------------------
(* Properties of the buffered range, checked under SpecBuffer *)

\* C14 as stated: detect_all_shifts returns exactly the same
\* shifts_by_employee and the same broken_shifts list for the punches inside
\* the buffer as for the complete punch set.
C14_BufferExact ==
    pc = "buffered" =>
        /\ outcomes[2].shifts_by_employee = outcomes[1].shifts_by_employee
        /\ outcomes[2].broken_shifts = outcomes[1].broken_shifts

\* the shifts of a list, with how many times each occurs
ShiftBag(ss) == [s \in {ss[k] : k \in 1..Len(ss)} |->
                    Cardinality({k \in 1..Len(ss) : ss[k] = s})]

\* C14, as the code behaves: for the punches inside the buffer
\* detect_all_shifts returns the same shifts_by_employee as for the complete
\* punch set, and the same broken shifts - the same shifts the same number of
\* times, and those of one employee in the same order; only the order of the
\* employees in the broken_shifts list can differ.
C14_BufferSameShifts ==
    pc = "buffered" =>
        /\ outcomes[2].shifts_by_employee = outcomes[1].shifts_by_employee
        /\ ShiftBag(outcomes[2].broken_shifts) = ShiftBag(outcomes[1].broken_shifts)
        /\ \A e \in Employees : BrokenOf(outcomes[2], e) = BrokenOf(outcomes[1], e)

\* a punch two days before the range is dropped, and in the complete set it
\* pairs with a punch of the day before the range; a NIGHT shift of the last
\* date of the range ends on the day after the range
C14_Witness ==
    /\ pc = "buffered"
    /\ Len(kept) < Len(punches)
    /\ LET all == DetectEmployeeShifts("E1", PunchesOfEmployee(punches, "E1"))
       IN  \E k \in 1..Len(all) :
               /\ all[k].shift_type = "night"
               /\ DateOf(all[k].start_punch) = date_from - 2
               /\ DateOf(all[k].end_punch) = date_from - 1
    /\ "E1" \in DOMAIN outcomes[2].shifts_by_employee
    /\ \E k \in 1..Len(outcomes[2].shifts_by_employee["E1"]) :
           LET s == outcomes[2].shifts_by_employee["E1"][k]
           IN  /\ s.shift_type = "night"
               /\ s.attributed_date = date_to
               /\ DateOf(s.end_punch) = date_to + 1

====
